---- MODULE Spec2Model ----
(***************************************************************************)
(* The Game of Life universe of src/src/lib.rs: a width x height torus     *)
(* stored one bit per cell in a FixedBitSet, with the generation step,     *)
(* the resize/clear/randomize rebuilds, the toggling shape stamps and the  *)
(* text rendering.                                                         *)
(***************************************************************************)
EXTENDS Integers, Sequences, FiniteSets, TLC

VARIABLES
    width,            \* Universe.width  (u32)
    height,           \* Universe.height (u32)
    cells,            \* Universe.cells  (FixedBitSet): [length, ones]
    panicked,         \* a call has panicked: the universe is lost to its owner
    overflow_checks,  \* build profile: TRUE = arithmetic overflow panics, FALSE = it wraps
    op,               \* the name of the last public call made on the universe
    result,           \* what that call returned: the text of render(), <<>> otherwise
    call,             \* scenario runs: the call under study
    saved,            \* scenario runs: the cell bits before the call under study
    calls,            \* scenario runs: how often the call under study has been made
    ticks,            \* scenario runs: tick() calls made since the call under study
    history,          \* replayed runs: the start and, for every call of the first run, the
                      \* call and the universe it left
    run               \* replayed runs: 1 while the calls are chosen, 2 while they are replayed

vars == <<width, height, cells, panicked, overflow_checks, op, result, call, saved, calls, ticks,
          history, run>>

universe == <<width, height, cells, panicked, overflow_checks>>
scenario == <<call, saved, calls, ticks, history, run>>

\* no run is being replayed
NoReplay == history = <<>> /\ run = 1

-----------------------------------------------------------------------------
(* Bounds of the model.                                                    *)

\* set_width / set_height are tried with 0..MaxDim and with BigDim
MaxDim == 3
\* toggle_cell / create_object are tried with row and column in 0..MaxCoord
MaxCoord == 2
\* calls that walk or edit the grid are explored on bit-sets of at most MaxCells bits
MaxCells == 9
\* randomize_cells is tried with every draw that leaves the cells from MaxRandom on dead
MaxRandom == 4

-----------------------------------------------------------------------------
(* u32 arithmetic.  Values are kept as two 16-bit halves where a product   *)
(* is formed, so that 2^32 itself is never computed.                       *)

U16 == 2^16
\* a dimension whose square is 2^32
BigDim == U16

Lo(a) == a % U16
Hi(a) == a \div U16
MulCross(a, b) == Hi(a) * Lo(b) + Lo(a) * Hi(b)

\* a * b does not fit in a u32
mul_overflows(a, b) ==
    /\ ~(a < U16 /\ b < U16)
    /\ \/ Hi(a) * Hi(b) > 0
       \/ MulCross(a, b) + ((Lo(a) * Lo(b)) \div U16) >= U16

\* a * b modulo 2^32; two factors below 2^16 have a product below 2^32
wrapping_mul(a, b) ==
    IF a < U16 /\ b < U16
    THEN a * b
    ELSE ((MulCross(a, b) + ((Lo(a) * Lo(b)) \div U16)) % U16) * U16
             + ((Lo(a) * Lo(b)) % U16)

\* n = a * b over the integers, decided without forming a * b
IsProduct(n, a, b) ==
    IF b = 0 THEN n = 0 ELSE n % b = 0 /\ n \div b = a

-----------------------------------------------------------------------------
(* FixedBitSet: a length and the set of the indices whose bit is 1.        *)

with_capacity(bits) == [length |-> bits, ones |-> {}]

\* bits outside the capacity read as false
contains(bitset, bit) == bit \in bitset.ones

\* set and toggle assert bit < length; the callers below test it first
set(bitset, bit, enabled) ==
    [bitset EXCEPT !.ones = IF enabled THEN @ \cup {bit} ELSE @ \ {bit}]

\* a toggle that sets the bit
toggle_sets(bitset, bit) == [bitset EXCEPT !.ones = @ \cup {bit}]

toggle(bitset, bit) ==
    [bitset EXCEPT !.ones = IF bit \in @ THEN @ \ {bit} ELSE @ \cup {bit}]

BITS == 32

\* as_slice(): the u32 blocks, block b holding the bits 32b .. 32b+31;
\* a block is given as the set of its bit positions that are 1
as_slice(bitset) ==
    [b \in 1..((bitset.length + BITS - 1) \div BITS) |->
        {i % BITS : i \in {j \in bitset.ones : j \div BITS = b - 1}}]

-----------------------------------------------------------------------------
(* build_cells: fill bits 0 .. width*height-1 of a bit-set of that length. *)
(* n is width * height as the u32 product; random is the set of indices    *)
(* for which Math.random() > 0.5 came out true.                            *)

ContentsSpaceship(i, w) ==
    \/ i = w + 0 \/ i = w + 1 \/ i = w + 2 \/ i = w + 3
    \/ i = 2 * w \/ i = 2 * w + 4 \/ i = 3 * w
    \/ i = 4 * w + 1 \/ i = 4 * w + 4

\* a fill whose Lines arm draws the even cells only
build_cells_even_lines(bitset, w, h, build_type, random) ==
    LET n == wrapping_mul(w, h)
        kept == bitset.ones \ (0..(n - 1))
    IN  CASE build_type = "Spaceship" ->
               [bitset EXCEPT !.ones = kept \cup {i \in 0..(n - 1) : ContentsSpaceship(i, w)}]
          [] build_type = "Random" ->
               [bitset EXCEPT !.ones = kept \cup (random \cap (0..(n - 1)))]
          [] build_type = "Lines" ->
               [bitset EXCEPT !.ones = kept \cup {i \in 0..(n - 1) : i % 2 = 0}]
          [] OTHER ->
               [bitset EXCEPT !.ones = kept]

build_cells(bitset, w, h, build_type, random) ==
    LET n == wrapping_mul(w, h)
        kept == bitset.ones \ (0..(n - 1))
    IN  CASE build_type = "Spaceship" ->
               [bitset EXCEPT !.ones = kept \cup {i \in 0..(n - 1) : ContentsSpaceship(i, w)}]
          [] build_type = "Random" ->
               [bitset EXCEPT !.ones = kept \cup (random \cap (0..(n - 1)))]
          [] build_type = "Lines" ->
               [bitset EXCEPT !.ones = kept \cup {i \in 0..(n - 1) : i % 2 = 0 \/ i % 7 = 0}]
          [] OTHER ->
               [bitset EXCEPT !.ones = kept]

-----------------------------------------------------------------------------
(* The private helpers of Universe.  u is [width, height, cells].          *)

self == [width |-> width, height |-> height, cells |-> cells]

\* (row * self.width + column) as usize; the sum stays below 2^32 for every
\* argument the model tries, the product does not
get_index(u, row, column) == wrapping_mul(row, u.width) + column

\* the product of get_index does not fit in a u32 and the build checks it
get_index_overflows(u, row, column) == overflow_checks /\ mul_overflows(row, u.width)

\* a count that does not skip the cell itself
live_neighbour_count_with_self(u, row, column) ==
    LET delta_rows == <<u.height - 1, 0, 1>>
        delta_cols == <<u.width - 1, 0, 1>>
    IN  Cardinality({ij \in (1..3) \X (1..3) :
            contains(u.cells,
                     get_index(u, (row + delta_rows[ij[1]]) % u.height,
                                  (column + delta_cols[ij[2]]) % u.width))})

\* the offsets are the lists [height-1, 0, 1] and [width-1, 0, 1]: a pair is
\* skipped when both of its VALUES are 0
live_neighbour_count(u, row, column) ==
    LET delta_rows == <<u.height - 1, 0, 1>>
        delta_cols == <<u.width - 1, 0, 1>>
    IN  Cardinality({ij \in (1..3) \X (1..3) :
            /\ ~(delta_cols[ij[2]] = 0 /\ delta_rows[ij[1]] = 0)
            /\ contains(u.cells,
                        get_index(u, (row + delta_rows[ij[1]]) % u.height,
                                     (column + delta_cols[ij[2]]) % u.width))})

\* a match that lets a live cell with 3 neighbours die
rule_survives_on_two(cell, live_neighbours) ==
    CASE cell /\ live_neighbours # 2 -> FALSE
      [] ~cell /\ live_neighbours = 3 -> TRUE
      [] OTHER -> cell

\* the match of tick()
rule(cell, live_neighbours) ==
    CASE cell /\ (live_neighbours < 2 \/ live_neighbours > 3) -> FALSE
      [] ~cell /\ live_neighbours = 3 -> TRUE
      [] OTHER -> cell

-----------------------------------------------------------------------------
(* tick(): next starts as a clone of the cells; every (row, col) in          *)
(* row-major order reads the cell and its neighbours from self.cells and     *)
(* writes next; next.set panics on an index outside the bit-set, and then    *)
(* self.cells is never replaced.  A call's outcome is [panic, cells].        *)

\* the inner loop of a tick that updates the grid in place
RECURSIVE tick_cols_in_place(_, _, _, _)
tick_cols_in_place(u, row, col, next) ==
    IF col >= u.width THEN [panic |-> FALSE, cells |-> next]
    ELSE LET idx == get_index(u, row, col)
             cell == contains(next, idx)
             live_neighbours == live_neighbour_count([u EXCEPT !.cells = next], row, col)
         IN  IF idx >= next.length
             THEN [panic |-> TRUE, cells |-> u.cells]
             ELSE tick_cols_in_place(u, row, col + 1,
                                     set(next, idx, rule(cell, live_neighbours)))

\* for col in 0..self.width
RECURSIVE tick_cols(_, _, _, _)
tick_cols(u, row, col, next) ==
    IF col >= u.width THEN [panic |-> FALSE, cells |-> next]
    ELSE LET idx == get_index(u, row, col)
             cell == contains(u.cells, idx)
             live_neighbours == live_neighbour_count(u, row, col)
         IN  IF idx >= next.length
             THEN [panic |-> TRUE, cells |-> u.cells]
             ELSE tick_cols(u, row, col + 1, set(next, idx, rule(cell, live_neighbours)))

\* for row in 0..self.height (with width 0 no row has a cell to visit)
RECURSIVE tick_rows(_, _, _)
tick_rows(u, row, next) ==
    IF row >= u.height \/ u.width = 0 THEN [panic |-> FALSE, cells |-> next]
    ELSE LET done == tick_cols(u, row, 0, next)
         IN  IF done.panic THEN done ELSE tick_rows(u, row + 1, done.cells)

\* a tick that works every other time the process calls it
tick_every_other_call(u) ==
    IF ticks % 2 = 1 THEN [panic |-> FALSE, cells |-> u.cells] ELSE tick_rows(u, 0, u.cells)

tick(u) == tick_rows(u, 0, u.cells)

-----------------------------------------------------------------------------
(* set_cells: toggle the bit of every coordinate of the list, in order;      *)
(* get_index panics on a product that overflows where the build checks it,   *)
(* toggle panics on an index outside the bit-set; the toggles made before    *)
(* the panic stay.                                                           *)

RECURSIVE set_cells_from(_, _, _, _)
set_cells_from(u, coords, k, bits) ==
    IF k > Len(coords) THEN [panic |-> FALSE, cells |-> bits]
    ELSE LET idx == get_index(u, coords[k][1], coords[k][2])
         IN  IF get_index_overflows(u, coords[k][1], coords[k][2]) \/ idx >= bits.length
             THEN [panic |-> TRUE, cells |-> bits]
             ELSE set_cells_from(u, coords, k + 1, toggle(bits, idx))

set_cells(u, coords) == set_cells_from(u, coords, 1, u.cells)

-----------------------------------------------------------------------------
(* The shape stamps.  row_add and col_add divide by the dimension: a stamp   *)
(* on a universe of width 0 or height 0 panics before any bit is toggled.    *)

row_add(u, row, to_add) == (row + to_add) % u.height
col_add(u, col, to_add) == (col + to_add) % u.width

\* a glider whose columns are not wrapped
glider_cells_unwrapped(u, row, col) ==
    << <<row, col>>,
       <<row, col + 1>>,
       <<row, col + 2>>,
       <<row_add(u, row, 1), col>>,
       <<row_add(u, row, 2), col + 1>> >>

glider_cells(u, row, col) ==
    << <<row, col>>,
       <<row, col_add(u, col, 1)>>,
       <<row, col_add(u, col, 2)>>,
       <<row_add(u, row, 1), col>>,
       <<row_add(u, row, 2), col_add(u, col, 1)>> >>

create_glider(u, row, col) ==
    IF u.width = 0 \/ u.height = 0
    THEN [panic |-> TRUE, cells |-> u.cells]
    ELSE set_cells(u, glider_cells(u, row, col))

\* a horizontal row whose columns are not wrapped
create_pulsar_horizontal_row_unwrapped(u, row, col) ==
    << <<row, col + 2>>,
       <<row, col + 3>>,
       <<row, col + 4>>,
       <<row, col + 8>>,
       <<row, col + 9>>,
       <<row, col + 10>> >>

create_pulsar_horizontal_row(u, row, col) ==
    << <<row, col_add(u, col, 2)>>,
       <<row, col_add(u, col, 3)>>,
       <<row, col_add(u, col, 4)>>,
       <<row, col_add(u, col, 8)>>,
       <<row, col_add(u, col, 9)>>,
       <<row, col_add(u, col, 10)>> >>

create_pulsar_vertical_row(u, row, col) ==
    << <<row, col>>,
       <<row, col_add(u, col, 5)>>,
       <<row, col_add(u, col, 7)>>,
       <<row, col_add(u, col, 12)>> >>

pulsar_cells(u, row, col) ==
    LET row_0 == create_pulsar_horizontal_row(u, row, col)
        row_2 == create_pulsar_vertical_row(u, row_add(u, row, 2), col)
        row_3 == create_pulsar_vertical_row(u, row_add(u, row, 3), col)
        row_4 == create_pulsar_vertical_row(u, row_add(u, row, 4), col)
        row_5 == create_pulsar_horizontal_row(u, row_add(u, row, 5), col)
        row_7 == create_pulsar_horizontal_row(u, row_add(u, row, 7), col)
        row_8 == create_pulsar_vertical_row(u, row_add(u, row, 8), col)
        row_9 == create_pulsar_vertical_row(u, row_add(u, row, 9), col)
        row_10 == create_pulsar_vertical_row(u, row_add(u, row, 10), col)
        row_12 == create_pulsar_horizontal_row(u, row_add(u, row, 12), col)
    IN  row_0 \o row_2 \o row_3 \o row_4 \o row_5 \o row_7 \o row_8 \o row_9
              \o row_10 \o row_12

create_pulsar(u, row, col) ==
    IF u.width = 0 \/ u.height = 0
    THEN [panic |-> TRUE, cells |-> u.cells]
    ELSE set_cells(u, pulsar_cells(u, row, col))

\* a spaceship that stamps its anchor cell
create_spaceship_toggles(u, row, col) == set_cells(u, << <<row, col>> >>)

create_spaceship(u, row, col) == [panic |-> FALSE, cells |-> u.cells]

\* UniverseObjects
object_type(type_name) ==
    CASE type_name = "glider" -> "Glider"
      [] type_name = "spaceship" -> "Spaceship"
      [] type_name = "pulsar" -> "Pulsar"
      [] OTHER -> "None"

\* a create whose None arm does nothing
create_without_fallback(u, type, row, col) ==
    CASE type = "Pulsar" -> create_pulsar(u, row, col)
      [] type = "Spaceship" -> create_spaceship(u, row, col)
      [] type = "Glider" -> create_glider(u, row, col)
      [] OTHER -> [panic |-> FALSE, cells |-> u.cells]

create(u, type, row, col) ==
    CASE type = "Pulsar" -> create_pulsar(u, row, col)
      [] type = "Spaceship" -> create_spaceship(u, row, col)
      [] type = "Glider" -> create_glider(u, row, col)
      [] OTHER -> set_cells(u, << <<row, col>> >>)

create_object(u, type_name, row, col) == create(u, object_type(type_name), row, col)

toggle_cell(u, row, column) == set_cells(u, << <<row, column>> >>)

-----------------------------------------------------------------------------
(* render(): Display walks cells.as_slice(), the u32 BLOCKS of the bit-set,  *)
(* in chunks of `width` blocks: one glyph per block, one line per chunk.     *)
(* chunks(0) panics.  The text is the sequence of its characters.            *)

Alive == "alive glyph"
Dead == "dead glyph"
Newline == "\n"

symbol(cell) == IF cell = {} THEN Dead ELSE Alive

RECURSIVE fmt_from(_, _, _)
fmt_from(blocks, chunk_size, first) ==
    IF first > Len(blocks) THEN <<>>
    ELSE LET last == IF first + chunk_size - 1 < Len(blocks)
                     THEN first + chunk_size - 1 ELSE Len(blocks)
         IN  [k \in 1..(last - first + 1) |-> symbol(blocks[first + k - 1])]
                 \o <<Newline>> \o fmt_from(blocks, chunk_size, last + 1)

fmt(u) ==
    IF u.width = 0
    THEN [panic |-> TRUE, text |-> <<>>]
    ELSE [panic |-> FALSE, text |-> fmt_from(as_slice(u.cells), u.width, 1)]

render(u) == fmt(u)

-----------------------------------------------------------------------------
(* The public calls.                                                         *)

\* a call and its arguments
Call(name, type_name, row, column, coords, size) ==
    [name |-> name, type_name |-> type_name, row |-> row, column |-> column,
     coords |-> coords, size |-> size]

NoText == <<>>

TypeNames == {"glider", "spaceship", "pulsar", "block"}

\* the sizes set_width and set_height are tried with
Sizes == (0..MaxDim) \cup {BigDim}

\* the coordinates toggle_cell and create_object are tried with
Coords == 0..MaxCoord

DefaultWidth == 80
DefaultHeight == 64

\* new()
New ==
    /\ width = DefaultWidth
    /\ height = DefaultHeight
    /\ cells = build_cells(with_capacity(wrapping_mul(DefaultWidth, DefaultHeight)),
                           DefaultWidth, DefaultHeight, "Lines", {})
    /\ panicked = FALSE
    /\ op = "new"
    /\ result = NoText

\* a call that leaves the dimensions alone and ends with outcome r
Outcome(r) ==
    /\ LET out == r IN cells' = out.cells /\ panicked' = out.panic
    /\ UNCHANGED <<width, height, overflow_checks>>

Tick ==
    /\ ~panicked
    /\ Outcome(tick(self))
    /\ op' = "tick"
    /\ result' = NoText

ToggleCell(row, column) ==
    /\ ~panicked
    /\ Outcome(toggle_cell(self, row, column))
    /\ op' = "toggle_cell"
    /\ result' = NoText

CreateObject(type_name, row, col) ==
    /\ ~panicked
    /\ Outcome(create_object(self, type_name, row, col))
    /\ op' = "create_object"
    /\ result' = NoText

SetCells(coords) ==
    /\ ~panicked
    /\ Outcome(set_cells(self, coords))
    /\ op' = "set_cells"
    /\ result' = NoText

\* the rebuilds: the size is the u32 product, which the build either checks
\* (and panics, after the dimension is stored) or wraps
Rebuild(w, h, build_type, random) ==
    IF mul_overflows(w, h) /\ overflow_checks
    THEN /\ cells' = cells
         /\ panicked' = TRUE
    ELSE /\ cells' = build_cells(with_capacity(wrapping_mul(w, h)), w, h, build_type, random)
         /\ panicked' = FALSE

SetWidth(w) ==
    /\ ~panicked
    /\ width' = w
    /\ Rebuild(w, height, "Empty", {})
    /\ UNCHANGED <<height, overflow_checks>>
    /\ op' = "set_width"
    /\ result' = NoText

SetHeight(h) ==
    /\ ~panicked
    /\ height' = h
    /\ Rebuild(width, h, "Empty", {})
    /\ UNCHANGED <<width, overflow_checks>>
    /\ op' = "set_height"
    /\ result' = NoText

ClearCells ==
    /\ ~panicked
    /\ Rebuild(width, height, "Empty", {})
    /\ UNCHANGED <<width, height, overflow_checks>>
    /\ op' = "clear_cells"
    /\ result' = NoText

RandomizeCells(random) ==
    /\ ~panicked
    /\ Rebuild(width, height, "Random", random)
    /\ UNCHANGED <<width, height, overflow_checks>>
    /\ op' = "randomize_cells"
    /\ result' = NoText

Render ==
    /\ ~panicked
    /\ LET out == render(self) IN panicked' = out.panic /\ result' = out.text
    /\ UNCHANGED <<width, height, cells, overflow_checks>>
    /\ op' = "render"

-----------------------------------------------------------------------------
(* The universe under any sequence of public calls, from new().              *)

\* the grid is small enough for the calls that walk or edit it
Explored == cells.length <= MaxCells

\* the outcomes of the random draws of randomize_cells: any set of cells alive
Randoms == IF Explored THEN SUBSET (0..(MaxRandom - 1)) ELSE {}

Init ==
    /\ New
    /\ overflow_checks \in BOOLEAN
    /\ call = Call("new", "", 0, 0, <<>>, 0)
    /\ saved = with_capacity(0)
    /\ calls = 0
    /\ ticks = 0
    /\ NoReplay

Next ==
    \/ Explored /\ Tick /\ UNCHANGED scenario
    \/ \E row \in Coords, column \in Coords :
          Explored /\ ToggleCell(row, column) /\ UNCHANGED scenario
    \/ \E type_name \in TypeNames, row \in Coords, col \in Coords :
          Explored /\ CreateObject(type_name, row, col) /\ UNCHANGED scenario
    \/ \E w \in Sizes : SetWidth(w) /\ UNCHANGED scenario
    \/ \E h \in Sizes : SetHeight(h) /\ UNCHANGED scenario
    \/ ClearCells /\ UNCHANGED scenario
    \/ \E random \in Randoms : RandomizeCells(random) /\ UNCHANGED scenario
    \/ Explored /\ Render /\ UNCHANGED scenario

Spec == Init /\ [][Next]_vars

-----------------------------------------------------------------------------
(* Scenario runs: a universe that resizes, toggles or a random fill lead to, *)
(* one call under study made on it, then that call again or tick() calls.    *)

\* a grid of w x h cells with the cells of `ones` alive, as the last call left it;
\* no product of a scenario run overflows, so the build profile plays no part in
\* it: the runs take the wrapping one
Grid(w, h, ones) ==
    /\ width = w
    /\ height = h
    /\ cells = [length |-> wrapping_mul(w, h), ones |-> ones]
    /\ panicked = FALSE
    /\ overflow_checks = FALSE
    /\ op = IF ones = {} THEN "clear_cells" ELSE "randomize_cells"
    /\ result = NoText
    /\ saved = cells
    /\ calls = 0
    /\ ticks = 0

\* the coordinates inside a w x h grid
Inside(w, h) == (0..(h - 1)) \X (0..(w - 1))

\* the stripes of the Lines fill on n cells
Stripes(n) == {i \in 0..(n - 1) : i % 2 = 0 \/ i % 7 = 0}

\* make the call under study
MakeCall ==
    /\ \/ call.name = "set_cells" /\ SetCells(call.coords)
       \/ call.name = "toggle_cell" /\ ToggleCell(call.row, call.column)
       \/ call.name = "create_object" /\ CreateObject(call.type_name, call.row, call.column)
    /\ calls' = calls + 1
    /\ UNCHANGED <<call, saved, ticks, history, run>>

TickAfter ==
    /\ Tick
    /\ ticks' = ticks + 1
    /\ UNCHANGED <<call, saved, calls, history, run>>

(* The same call twice in a row. *)

\* set_cells is tried with the lists of at most MaxList coordinates
MaxList == 2

CoordLists(w, h) ==
    UNION {[1..n -> Inside(w, h)] : n \in 0..MaxList}

RepeatedCalls(w, h) ==
    {Call("set_cells", "", 0, 0, coords, 0) : coords \in CoordLists(w, h)}
        \cup {Call("toggle_cell", "", rc[1], rc[2], <<>>, 0) : rc \in Inside(w, h)}
        \cup {Call("create_object", t, rc[1], rc[2], <<>>, 0) :
                 t \in TypeNames, rc \in Inside(w, h)}

RepeatInit ==
    \E w \in 1..MaxDim, h \in 1..MaxDim :
        /\ w * h <= MaxCells
        /\ \E ones \in SUBSET (0..(MaxRandom - 1)) :
              ones \subseteq 0..(w * h - 1) /\ Grid(w, h, ones)
        /\ call \in RepeatedCalls(w, h)
        /\ NoReplay

RepeatNext == calls < 2 /\ MakeCall

RepeatSpec == RepeatInit /\ [][RepeatNext]_vars

(* A glider stamped on a grid, then four ticks. *)

MinGlider == 3
MaxGlider == 10
GliderTorus == 9
GliderPeriod == 4

GliderInit ==
    \E w \in MinGlider..MaxGlider, h \in MinGlider..MaxGlider :
        /\ \E ones \in {{}, Stripes(w * h)} : Grid(w, h, ones)
        /\ call \in {Call("create_object", "glider", rc[1], rc[2], <<>>, 0) :
                        rc \in Inside(w, h)}
        /\ NoReplay

GliderNext ==
    \/ calls = 0 /\ MakeCall
    \/ /\ calls = 1 /\ ticks < GliderPeriod
       /\ saved.ones = {} /\ width >= GliderTorus /\ height >= GliderTorus
       /\ TickAfter

GliderSpec == GliderInit /\ [][GliderNext]_vars

(* A pulsar stamped on an empty grid, then three ticks on a torus that       *)
(* holds it with room to spare.                                              *)

MinPulsar == 13
MaxPulsar == 17
PulsarTorus == 17
PulsarPeriod == 3

PulsarInit ==
    \E w \in MinPulsar..MaxPulsar, h \in MinPulsar..MaxPulsar :
        /\ Grid(w, h, {})
        /\ call \in {Call("create_object", "pulsar", rc[1], rc[2], <<>>, 0) :
                        rc \in Inside(w, h)}
        /\ NoReplay

PulsarNext ==
    \/ calls = 0 /\ MakeCall
    \/ /\ calls = 1 /\ ticks < PulsarPeriod
       /\ width >= PulsarTorus /\ height >= PulsarTorus
       /\ TickAfter

PulsarSpec == PulsarInit /\ [][PulsarNext]_vars

(* One toggle_cell or create_object call with any arguments, in range or    *)
(* not, on any universe the resizes and fills lead to.                       *)

\* the rows and columns the call is tried with
Args == Sizes

\* the fills of the first MaxRandom cells: none alive, or the stripes
Fills(n) == {{}, Stripes(IF n < MaxRandom THEN n ELSE MaxRandom)}

\* a build that checks overflow never gets past a size that overflows
Profiles(w, h) == IF mul_overflows(w, h) THEN {FALSE} ELSE BOOLEAN

CallInit ==
    \E w \in Sizes, h \in Sizes :
        /\ width = w
        /\ height = h
        /\ \E ones \in Fills(wrapping_mul(w, h)) :
              cells = [length |-> wrapping_mul(w, h), ones |-> ones]
        /\ panicked = FALSE
        /\ overflow_checks \in Profiles(w, h)
        /\ op = IF cells.ones = {} THEN "clear_cells" ELSE "randomize_cells"
        /\ result = NoText
        /\ saved = cells
        /\ calls = 0
        /\ ticks = 0
        /\ call \in {Call("toggle_cell", "", row, col, <<>>, 0) :
                        row \in Args, col \in Args}
                  \cup {Call("create_object", t, row, col, <<>>, 0) :
                           t \in TypeNames, row \in Args, col \in Args}
        /\ NoReplay

CallNext == calls = 0 /\ MakeCall

CallSpec == CallInit /\ [][CallNext]_vars

(* Two universes with the same width, height and cell bits, stepped through *)
(* the same calls one after the other: the first run chooses the calls and   *)
(* notes the universe each one leaves, the second starts from the same grid  *)
(* and makes them again.  ticks counts the tick() calls of both runs.        *)

\* a run makes at most MaxSteps calls
MaxSteps == 2

\* what two universes are compared on
Observed == [width |-> width, height |-> height, cells |-> cells, panicked |-> panicked]

\* the rows and columns of the replayed calls: the first and the last tried
ReplayedCoords == {0, MaxCoord}

\* the calls that draw no random number
ReplayedCalls ==
    {Call("tick", "", 0, 0, <<>>, 0), Call("clear_cells", "", 0, 0, <<>>, 0)}
        \cup {Call("toggle_cell", "", row, col, <<>>, 0) :
                 row \in ReplayedCoords, col \in ReplayedCoords}
        \cup {Call("create_object", t, row, col, <<>>, 0) :
                 t \in TypeNames, row \in ReplayedCoords, col \in ReplayedCoords}
        \cup {Call("set_width", "", 0, 0, <<>>, w) : w \in Sizes}
        \cup {Call("set_height", "", 0, 0, <<>>, h) : h \in Sizes}

\* as under Spec, the calls that walk or edit the grid are made on explored grids
DoCall(c) ==
    \/ c.name = "tick" /\ Explored /\ Tick /\ ticks' = ticks + 1
    \/ c.name = "clear_cells" /\ ClearCells /\ ticks' = ticks
    \/ c.name = "toggle_cell" /\ Explored /\ ToggleCell(c.row, c.column) /\ ticks' = ticks
    \/ c.name = "create_object" /\ Explored /\ CreateObject(c.type_name, c.row, c.column)
          /\ ticks' = ticks
    \/ c.name = "set_width" /\ SetWidth(c.size) /\ ticks' = ticks
    \/ c.name = "set_height" /\ SetHeight(c.size) /\ ticks' = ticks

ReplayInit ==
    /\ \E w \in (MaxDim - 1)..MaxDim, h \in (MaxDim - 1)..MaxDim :
          \E ones \in Fills(w * h) : Grid(w, h, ones)
    /\ call = Call("new", "", 0, 0, <<>>, 0)
    /\ history = <<[call |-> call, observed |-> Observed]>>
    /\ run = 1

\* the first universe: any call
FirstRun ==
    /\ run = 1 /\ calls < MaxSteps
    /\ \E c \in ReplayedCalls :
          /\ DoCall(c)
          /\ history' = Append(history, [call |-> c, observed |-> Observed'])
    /\ calls' = calls + 1
    /\ UNCHANGED <<call, saved, run>>

\* the second universe: the width, height and cell bits the first started with
SecondUniverse ==
    /\ run = 1 /\ calls >= 1
    /\ width' = history[1].observed.width
    /\ height' = history[1].observed.height
    /\ cells' = history[1].observed.cells
    /\ panicked' = history[1].observed.panicked
    /\ op' = IF cells'.ones = {} THEN "clear_cells" ELSE "randomize_cells"
    /\ result' = NoText
    /\ run' = 2
    /\ calls' = 0
    /\ UNCHANGED <<overflow_checks, call, saved, ticks, history>>

\* the second universe: the calls of the first, in order
SecondRun ==
    /\ run = 2 /\ calls < Len(history) - 1
    /\ DoCall(history[calls + 2].call)
    /\ calls' = calls + 1
    /\ UNCHANGED <<call, saved, history, run>>

ReplayNext == FirstRun \/ SecondUniverse \/ SecondRun

ReplaySpec == ReplayInit /\ [][ReplayNext]_vars

-----------------------------------------------------------------------------
(* Vocabulary of the properties.                                             *)

Rows == 0..(height - 1)
Columns == 0..(width - 1)

\* the bit of cell (row, col) in a bit-set laid out row by row
Bit(bitset, row, col) == (row * width + col) \in bitset.ones

\* the universe holds every cell of its grid
Sized == IsProduct(cells.length, width, height)

\* B3/S23 on the grid u: alive with 2 or 3 live neighbours, or dead with 3
Survives(u, row, col) ==
    contains(u.cells, get_index(u, row, col)) /\ live_neighbour_count(u, row, col) \in {2, 3}
Born(u, row, col) ==
    ~contains(u.cells, get_index(u, row, col)) /\ live_neighbour_count(u, row, col) = 3

\* the 8 offsets of a cell's neighbourhood
Offsets == {d \in {-1, 0, 1} \X {-1, 0, 1} : d # <<0, 0>>}

\* the live cells among the 8 neighbour positions of (row, col) on the torus,
\* a position counted once for every offset that leads to it
OffsetSum(row, col) ==
    Cardinality({d \in Offsets :
        Bit(cells, (row + d[1]) % height, (col + d[2]) % width)})

\* the text with one line per row and one glyph per cell
RECURSIVE GridText(_)
GridText(row) ==
    IF row >= height THEN <<>>
    ELSE [k \in 1..width |-> IF Bit(cells, row, k - 1) THEN Alive ELSE Dead]
             \o <<Newline>> \o GridText(row + 1)

-----------------------------------------------------------------------------
C2_SizeInvariant ==
    /\ [](~panicked => Sized)
    /\ [][op' \in {"tick", "toggle_cell", "create_object"} =>
             width' = width /\ height' = height /\ cells'.length = cells.length]_vars

(* C3: on a grid with width >= 1 and height >= 1, live_neighbour_count of    *)
(* every cell is the number of live cells over the 8 offsets other than      *)
(* (0,0), taken modulo the dimensions and counted with multiplicity, it is   *)
(* within 0..8, and a live (height-1, width-1) counts for (0,0).             *)
C3_EightNeighbours ==
    (~panicked /\ Explored /\ Sized /\ width >= 1 /\ height >= 1) =>
        /\ \A row \in Rows, col \in Columns :
              /\ live_neighbour_count(self, row, col) = OffsetSum(row, col)
              /\ live_neighbour_count(self, row, col) \in 0..8
        /\ Bit(cells, height - 1, width - 1) => live_neighbour_count(self, 0, 0) >= 1

(* C5: render() returns height lines, each of width glyphs and a newline,    *)
(* the glyph of (row, col) alive exactly if bit row*width+col is set.        *)
C5_RenderIsGrid ==
    (op = "render" /\ ~panicked) => result = GridText(0)

(* C7: set_width(w) yields width w, the height unchanged and w * height      *)
(* cells, all dead; set_height(h) likewise; nothing stays alive.             *)
C7_ResizeIsEmpty ==
    [][(op' \in {"set_width", "set_height"} /\ ~panicked') =>
          /\ op' = "set_width" => height' = height
          /\ op' = "set_height" => width' = width
          /\ IsProduct(cells'.length, width', height')
          /\ cells'.ones = {}]_vars

-----------------------------------------------------------------------------
(* Vocabulary of the scenario properties.                                    *)

\* the bit-set indices of a set of (row, col) cells
Indices(cs) == {rc[1] * width + rc[2] : rc \in cs}

\* the cells at the given offsets from (row, col), wrapped around the torus
Stamp(offsets, row, col) ==
    {<<(row + d[1]) % height, (col + d[2]) % width>> : d \in offsets}

GliderOffsets == {<<0, 0>>, <<0, 1>>, <<0, 2>>, <<1, 0>>, <<2, 1>>}

PulsarOffsets ==
    ({0, 5, 7, 12} \X {2, 3, 4, 8, 9, 10}) \cup ({2, 3, 4, 8, 9, 10} \X {0, 5, 7, 12})

\* the cells whose bit differs between two bit-sets
Flipped(before, after) ==
    (before.ones \ after.ones) \cup (after.ones \ before.ones)

\* the grid right after the call under study
Stamped ==
    create_object([width |-> width, height |-> height, cells |-> saved],
                  call.type_name, call.row, call.column).cells

(* C4 as stated: a glider stamped at (5,5) on an empty torus is, 4 ticks     *)
(* later, the same shape one row down and one column right: (6,6), (6,7),    *)
(* (6,8), (7,6), (8,7).                                                      *)
C4_GliderGoesSouthEast ==
    (/\ call.type_name = "glider" /\ call.row = 5 /\ call.column = 5
     /\ saved.ones = {} /\ width >= 9 /\ height >= 9
     /\ calls = 1 /\ ticks = 4) =>
        cells.ones = Indices(Stamp(GliderOffsets, 6, 6))

(* C4 amended: 4 ticks later the shape is one row UP and one column LEFT:    *)
(* (4,4), (4,5), (4,6), (5,4), (6,5) and nothing else.                       *)
C4_GliderGoesNorthWest ==
    (/\ call.type_name = "glider" /\ call.row = 5 /\ call.column = 5
     /\ saved.ones = {} /\ width >= 9 /\ height >= 9
     /\ calls = 1 /\ ticks = 4) =>
        /\ ~panicked
        /\ cells.ones = Indices(Stamp(GliderOffsets, 4, 4))
        /\ cells.ones = {4 * width + 4, 4 * width + 5, 4 * width + 6,
                         5 * width + 4, 6 * width + 5}

C4_Witness ==
    /\ call.type_name = "glider" /\ call.row = 5 /\ call.column = 5
    /\ saved.ones = {} /\ width >= 9 /\ height >= 9
    /\ calls = 1 /\ ticks = 4 /\ op = "tick" /\ ~panicked

(* C6: the same set_cells, toggle_cell or create_object call with in-range   *)
(* coordinates, made twice in a row, completes and restores every cell bit.  *)
C6_TwiceRestores ==
    calls = 2 => (~panicked /\ cells = saved)

\* set_cells has run twice with a list that names one cell twice, on live cells
C6_Witness ==
    /\ calls = 2 /\ call.name = "set_cells"
    /\ Len(call.coords) = 2 /\ call.coords[1] = call.coords[2]
    /\ saved.ones # {} /\ width >= 2 /\ height >= 2

(* C8: on a torus of at least 17 x 17 the pulsar stamped on the empty grid   *)
(* is back after 3 ticks, and is not after 1 or 2.                           *)
C8_PulsarPeriodThree ==
    (/\ call.type_name = "pulsar" /\ saved.ones = {}
     /\ width >= 17 /\ height >= 17 /\ calls = 1) =>
        /\ ~panicked
        /\ ticks = 3 => cells = Stamped
        /\ ticks \in {1, 2} => cells # Stamped

\* three ticks after a pulsar stamped across the right and bottom edges
C8_Witness ==
    /\ call.type_name = "pulsar" /\ saved.ones = {}
    /\ width >= 17 /\ height >= 17 /\ calls = 1
    /\ ticks = 3 /\ op = "tick" /\ ~panicked
    /\ call.row = height - 1 /\ call.column = width - 1
    /\ cells.ones # {}

(* C9: on a grid of at least 3 x 3, a glider stamped at an in-range anchor   *)
(* flips exactly the 5 cells at offsets (0,0), (0,1), (0,2), (1,0), (2,1)    *)
(* taken modulo the dimensions: live stamp cells die, all others stay.       *)
C9_GliderFlipsFive ==
    (/\ call.type_name = "glider" /\ width >= 3 /\ height >= 3
     /\ calls = 1 /\ ticks = 0) =>
        /\ ~panicked
        /\ cells.length = saved.length
        /\ Flipped(saved, cells) = Indices(Stamp(GliderOffsets, call.row, call.column))
        /\ Cardinality(Flipped(saved, cells)) = 5

\* a glider stamped across the right and bottom edges, onto live cells
C9_Witness ==
    /\ call.type_name = "glider" /\ calls = 1 /\ ticks = 0 /\ ~panicked
    /\ call.row = height - 1 /\ call.column = width - 1
    /\ saved.ones \ cells.ones # {}
    /\ cells.ones \ saved.ones # {}

(* C10: on an empty grid of at least 13 x 13, a pulsar stamped at an         *)
(* in-range anchor leaves exactly 48 live cells: rows +{0,5,7,12} with       *)
(* columns +{2,3,4,8,9,10}, rows +{2,3,4,8,9,10} with columns +{0,5,7,12},   *)
(* all modulo the dimensions.                                                *)
C10_PulsarIsFortyEight ==
    (/\ call.type_name = "pulsar" /\ saved.ones = {}
     /\ width >= 13 /\ height >= 13 /\ calls = 1 /\ ticks = 0) =>
        /\ ~panicked
        /\ cells.length = saved.length
        /\ cells.ones = Indices(Stamp(PulsarOffsets, call.row, call.column))
        /\ Cardinality(cells.ones) = 48

\* a pulsar stamped across the right and bottom edges of a 13 x 13 grid
C10_Witness ==
    /\ call.type_name = "pulsar" /\ saved.ones = {}
    /\ width = 13 /\ height = 13 /\ calls = 1 /\ ticks = 0 /\ ~panicked
    /\ call.row = height - 1 /\ call.column = width - 1
    /\ op = "create_object" /\ cells.ones # {}

-----------------------------------------------------------------------------
\* the universe as it was before the call under study
Before == [width |-> width, height |-> height, cells |-> saved]

(* C11: create_object with a name other than "glider", "pulsar" and          *)
(* "spaceship" ends as toggle_cell(row, col) ends: for an in-range           *)
(* (row, col) it completes, flips the bit row*width+col and no other, and    *)
(* leaves width, height and the number of bits alone.                        *)
C11_UnknownNameToggles ==
    (/\ call.name = "create_object"
     /\ call.type_name \notin {"glider", "pulsar", "spaceship"}
     /\ calls = 1) =>
        /\ ~panicked
        /\ cells = toggle_cell(Before, call.row, call.column).cells
        /\ cells.length = saved.length
        /\ Flipped(saved, cells) = {call.row * width + call.column}

\* create_object("block", 1, 0) has flipped a live cell of a 3-wide grid
C11_Witness ==
    /\ call.name = "create_object" /\ call.type_name = "block"
    /\ calls = 1 /\ op = "create_object" /\ ~panicked
    /\ call.row = 1 /\ call.column = 0 /\ width = 3
    /\ 3 \in saved.ones /\ 3 \notin cells.ones

(* C12: create_object("spaceship", row, col) changes nothing: whatever the   *)
(* universe and whatever (row, col), in range or not, the call completes     *)
(* and width, height and every cell bit are as they were.                    *)
C12_SpaceshipChangesNothing ==
    [][(call.name = "create_object" /\ call.type_name = "spaceship"
            /\ calls' = calls + 1) =>
          /\ ~panicked'
          /\ width' = width /\ height' = height
          /\ cells' = cells]_vars

\* a spaceship has been asked for at a row outside a grid with live cells
C12_Witness ==
    /\ call.name = "create_object" /\ call.type_name = "spaceship"
    /\ calls = 1 /\ op = "create_object"
    /\ call.row >= height /\ height >= 1 /\ width >= 1
    /\ cells.ones # {}

(* C13: new() gives a universe of width 80 and height 64 with 80 * 64 cell   *)
(* bits, bit i set exactly if i mod 2 = 0 or i mod 7 = 0.                    *)
C13_NewIsStripes ==
    op = "new" =>
        /\ ~panicked
        /\ width = 80 /\ height = 64
        /\ cells.length = 80 * 64
        /\ cells.ones \subseteq 0..(80 * 64 - 1)
        /\ \A i \in 0..(80 * 64 - 1) : (i \in cells.ones) <=> (i % 2 = 0 \/ i % 7 = 0)

\* the universe new() returned: an odd multiple of 7 alive, its odd neighbour dead
C13_Witness ==
    /\ op = "new" /\ ~panicked
    /\ 7 \in cells.ones /\ 8 \in cells.ones /\ 9 \notin cells.ones
    /\ 5117 \in cells.ones /\ 5119 \notin cells.ones

(* C14: clear_cells() completes, leaves width and height as they were and    *)
(* the universe with width * height cell bits, all dead; a tick() on an      *)
(* all-dead universe completes and leaves it all dead, so that any number    *)
(* of ticks after clear_cells() does.                                        *)
C14_ClearStaysDead ==
    /\ [][op' = "clear_cells" =>
             /\ ~panicked'
             /\ width' = width /\ height' = height
             /\ IsProduct(cells'.length, width', height')
             /\ cells'.ones = {}]_vars
    /\ [][(cells.ones = {} /\ op' = "tick") =>
             /\ ~panicked'
             /\ cells'.length = cells.length
             /\ cells'.ones = {}]_vars

\* C14 on the universes whose size fits in 32 bits: there it holds
C14_ClearStaysDeadWithoutOverflow ==
    /\ [][(op' = "clear_cells" /\ ~mul_overflows(width, height)) =>
             /\ ~panicked'
             /\ width' = width /\ height' = height
             /\ IsProduct(cells'.length, width', height')
             /\ cells'.ones = {}]_vars
    /\ [][(cells.ones = {} /\ op' = "tick" /\ ~mul_overflows(width, height)) =>
             /\ ~panicked'
             /\ cells'.length = cells.length
             /\ cells'.ones = {}]_vars

InRange(row, col) == row < height /\ col < width

\* row * width + col < width * height, decided without forming the products
InBitSet(row, col) == width > 0 /\ row + (col \div width) < height

(* C16: no call fails within its preconditions.  new, set_width(w) and       *)
(* set_height(h) for any w and h, clear_cells and tick have none: in every   *)
(* universe any sequence of calls leads to, they complete.                   *)
C16_NoOperationFails ==
    [][op' \in {"new", "set_width", "set_height", "clear_cells", "tick"} => ~panicked']_vars

\* C16 where the size fits in 32 bits: there new, the resizes, clear_cells and
\* tick complete, also with width 0 or height 0
C16_NoOperationFailsWithoutOverflow ==
    [][(op' \in {"new", "set_width", "set_height", "clear_cells", "tick"}
            /\ ~mul_overflows(width', height')) => ~panicked']_vars

\* C16 for toggle_cell and create_object where the size fits in 32 bits: with
\* row < height and col < width they complete, also on grids smaller than the shape
C16_InRangeCallsComplete ==
    (calls = 1 /\ InRange(call.row, call.column) /\ ~mul_overflows(width, height)) => ~panicked

(* C17: toggle_cell(row, col) checks no range.  If row*width+col is below    *)
(* width*height it completes and flips the bit row*width+col and no other,   *)
(* which for col >= width is the cell (row + col div width, col mod width);  *)
(* otherwise it fails and the grid is as it was.  Stated on the universes    *)
(* that hold width*height cell bits.                                         *)
C17_ToggleIsUnchecked ==
    (call.name = "toggle_cell" /\ calls = 1 /\ Sized) =>
        IF InBitSet(call.row, call.column)
        THEN /\ ~panicked
             /\ cells.length = saved.length
             /\ Flipped(saved, cells) = {call.row * width + call.column}
             /\ Flipped(saved, cells) =
                    Indices({<<call.row + (call.column \div width), call.column % width>>})
        ELSE /\ panicked
             /\ cells = saved

\* C17 for rows whose product with the width fits in 32 bits: there it holds
C17_ToggleIsUncheckedWithoutOverflow ==
    (call.name = "toggle_cell" /\ calls = 1 /\ Sized
        /\ ~mul_overflows(call.row, width)) =>
        IF InBitSet(call.row, call.column)
        THEN /\ ~panicked
             /\ cells.length = saved.length
             /\ Flipped(saved, cells) = {call.row * width + call.column}
             /\ Flipped(saved, cells) =
                    Indices({<<call.row + (call.column \div width), call.column % width>>})
        ELSE /\ panicked
             /\ cells = saved

(* C18: set_width(w) and set_height(h) complete for every u32 w and h and    *)
(* leave width * height cell bits, the true product, so that a tick() made   *)
(* next finds every cell of the grid in the bit-set and completes.           *)
C18_SizeSurvivesWraparound ==
    /\ [][op' \in {"set_width", "set_height"} =>
             /\ ~panicked'
             /\ IsProduct(cells'.length, width', height')]_vars
    /\ [][(op \in {"set_width", "set_height"} /\ op' = "tick") => ~panicked']_vars

====
